---------------------------- MODULE Spec2Model ----------------------------
(***************************************************************************)
(* Rendezvous-and-negotiation subsystem of the video-call application.    *)
(*                                                                         *)
(* Two state machines are modelled from the sources, in these settings.    *)
(*   Spec        the relay (src/backend/index.js): socket.io room          *)
(*               membership, roomMetadata, roomHosts, the join-room and    *)
(*               disconnecting handlers and the expiry sweep.              *)
(*   SpecSignal  the same relay with the signal handler in place of the    *)
(*               clock and the sweep.                                      *)
(*   SpecClient  one client session (src/frontend/src/utils/connection.tsx *)
(*               mounted by App.jsx): peersRef, candidateQueueRef, and the *)
(*               async handlers handleUserJoined / handleSignal /          *)
(*               handleUserLeft, each await being a separate step.         *)
(*   SpecPair    two such sessions joined to one room of the relay, the    *)
(*               relay's events queued per socket until delivered.         *)
(*   SpecLife    one session whose socket disconnects and reconnects, as   *)
(*               the App with the connect / disconnect handlers mounts     *)
(*               and unmounts VideoCall (src/unnamed/part_002).            *)
(*   SpecApi     the relay with any room id on join-room, malformed        *)
(*               messages, GET /validate-room and the expiry sweep.        *)
(*   SpecIndep   one session with two remotes, the operations of one       *)
(*               remote's peer connection settling fairly.                 *)
(*   SpecPairFair  SpecPair with every event delivered and every pending   *)
(*               operation settled eventually.                             *)
(*   SpecStray   SpecPair with sockets that connect without joining a room *)
(*               and signal into it.                                       *)
(*   SpecEnded   one session that is delivered meeting-ended.              *)
(*   SpecExpiry  the relay with the expiry sweep and Apps that reconnect   *)
(*               and rejoin after a disconnect (src/unnamed/part_002).     *)
(*   SpecChat    two VideoCalls (src/frontend/src/VideoCall.jsx) in one    *)
(*               room, sending and receiving chat messages.                *)
(***************************************************************************)
EXTENDS Integers, Sequences, FiniteSets, TLC

\* ------------------------------------------------------------------------
\* Relay: universe and bounds
\* ------------------------------------------------------------------------

\* Socket ids.  socket.io gives every connection a fresh id, so an id that
\* has disconnected never comes back.
Clients == {"a", "b", "c"}

Rooms == {"R1", "R2"}

\* What a client sends as room id when it sends no well-formed one: any
\* value is a key of the adapter's rooms Map and of roomMetadata.
BadRoom == "malformed"

RoomIds == Rooms \cup {BadRoom}

NoTarget == "none"

NoHost == "nohost"

\* clock advances explored.
MaxTicks == 2

\* 24 * 60 * 60 * 1000 ms, counted here in hours.
ROOM_EXPIRY_TIME == 24

\* Date.now() advances by this many hours between operations: a room is
\* exactly at the threshold after one advance and beyond it after two.
TickSteps == {24}

NoMeta == [present |-> FALSE, createdAt |-> 0, lastActivity |-> 0, host |-> NoHost]

VARIABLES
    connected,      \* sockets currently connected to the relay
    gone,           \* socket ids that have disconnected
    rooms,          \* io.sockets.adapter.rooms: room -> members, join order
    roomMetadata,   \* roomMetadata Map: room -> {createdAt,lastActivity,host}
    roomHosts,      \* roomHosts object: room -> host socket id
    now,            \* Date.now()
    ticks,          \* clock advances so far
    lastOp,         \* the handler that ran last, with its pre-state
    emitted         \* what that handler emitted, in order

relayVars == <<connected, gone, rooms, roomMetadata, roomHosts, now, ticks,
               lastOp, emitted>>

\* ------------------------------------------------------------------------
\* Client: universe and bounds
\* ------------------------------------------------------------------------

\* Socket ids of the other participants, as the relay reports them.
Remotes == {"p", "q"}

\* RTCPeerConnection objects created in one session.
MaxPcs == 3

\* Events handled in one session: user-joined notices, all-users entries,
\* offers, answers and candidates, over all remotes together.  Each remote's
\* candidates are numbered in arrival order.
MaxEvents == 4

\* Mounts of VideoCall in one page load: the first one and one per reconnect
\* of the socket.
MaxMounts == 2

VARIABLES
    phase,          \* "mounted": App.jsx has emitted join-room, no handler is
                    \* registered yet; "ready": localStream is set, the
                    \* handlers are registered and join-room is emitted again;
                    \* "nomedia": getUserMedia failed; "offline": the socket
                    \* is disconnected and VideoCall is not rendered
    peersRef,       \* peersRef.current: remote id -> pc (0: no entry)
    pcs,            \* every RTCPeerConnection created, by creation order
    candidateQueue, \* candidateQueueRef.current: remote id -> candidates
    tasks,          \* per pc: the handler invocations suspended at an await
                    \* of one of its operations, in call order
    delivered,      \* events the handlers have received, per remote and kind
    discarded,      \* the event delivered last found no handler registered:
                    \* its kind and sender, else NoEvent
    mount           \* n: mounts of VideoCall so far; older: how many of the
                    \* pcs were created by a hook that has been unmounted

clientVars ==
    <<phase, peersRef, pcs, candidateQueue, tasks, delivered, discarded, mount>>

\* ------------------------------------------------------------------------
\* Two sessions on one relay
\* ------------------------------------------------------------------------

\* the room both sessions ask for
PairRoom == "R1"

VARIABLES
    sessions,       \* per socket id: the phase of its App and hook ("idle"
                    \* before the socket connects) and the hook's state
    wire            \* per socket id: events the relay has emitted to it and
                    \* that are not delivered yet, in emission order

pairVars == <<sessions, wire>>

\* chat messages sent in one run.
MaxChats == 2

VARIABLES
    chatMessages,   \* per socket id: the chatMessages state of its VideoCall,
                    \* entries {sender, message} in the order they were added
    chatSent        \* the chat messages sent so far, in order: the sender of
                    \* each and the members of the room when it was sent

chatVars == <<chatMessages, chatSent>>

vars == <<relayVars, clientVars, pairVars, chatVars>>

\* ------------------------------------------------------------------------
\* Relay: helpers
\* ------------------------------------------------------------------------

SeqToSet(s) == {s[i] : i \in 1..Len(s)}

\* Set.delete on an insertion-ordered Set
SeqRemove(s, x) == SelectSeq(s, LAMBDA y : y # x)

\* Set.add on an insertion-ordered Set: no duplicate entry
SetAdd(s, x) == IF x \in SeqToSet(s) THEN s ELSE Append(s, x)

Ev(ev, to, sender, room, payload) ==
    [ev |-> ev, to |-> to, sender |-> sender, room |-> room, payload |-> payload]

RECURSIVE EmitEach(_, _, _, _, _)
\* one event per recipient of the sequence `recips`
EmitEach(recips, ev, sender, room, payload) ==
    IF recips = <<>> THEN <<>>
    ELSE <<Ev(ev, Head(recips), sender, room, payload)>>
            \o EmitEach(Tail(recips), ev, sender, room, payload)

\* socket.to(roomId).emit(...): every member of the room except the socket
SocketToRoom(rs, c, r, ev, payload) ==
    EmitEach(SeqRemove(rs[r], c), ev, c, r, payload)

\* io.to(roomId).emit(...): every member of the room
IoToRoom(rs, r, ev, sender, payload) ==
    EmitEach(rs[r], ev, sender, r, payload)

\* io.to(socketId).emit(...): every socket has a room named by its own id,
\* whatever other rooms it is in
IoToSocket(conn, t, ev, sender, room, payload) ==
    IF t \in conn THEN <<Ev(ev, t, sender, room, payload)>> ELSE <<>>

Op(op, client, room, to, before, hostBefore) ==
    [op |-> op, client |-> client, room |-> room, to |-> to,
     before |-> before, hostBefore |-> hostBefore]

NoOp == Op("init", NoTarget, NoTarget, NoTarget, <<>>, NoHost)

RoomOrder == <<"R1", "R2", BadRoom>>

\* The relay's mutable state, threaded through the handlers below.
RelayState ==
    [connected |-> connected, gone |-> gone, rooms |-> rooms,
     meta |-> roomMetadata, hosts |-> roomHosts, out |-> <<>>]

\* ------------------------------------------------------------------------
\* Relay: handlers as functions of the relay state
\* ------------------------------------------------------------------------

\* join-room whose member list keeps the joining socket
JoinRoomHandler_NoFilter(st, c, r, t) ==
    LET rs      == [st.rooms EXCEPT ![r] = SetAdd(@, c)]
        md      == IF ~st.meta[r].present
                   THEN [present |-> TRUE, createdAt |-> t,
                         lastActivity |-> t, host |-> c]
                   ELSE [st.meta[r] EXCEPT !.lastActivity = t]
        out     == <<Ev("all-users", c, c, r, rs[r])>>
                      \o SocketToRoom(rs, c, r, "user-joined", <<c>>)
    IN  [st EXCEPT !.rooms = rs,
                   !.meta  = [st.meta EXCEPT ![r] = md],
                   !.out   = st.out \o out]

\* join-room that adds the socket to the member list without looking for it
JoinRoomHandler_AppendsMember(st, c, r, t) ==
    LET rs      == [st.rooms EXCEPT ![r] = Append(@, c)]
        md      == IF ~st.meta[r].present
                   THEN [present |-> TRUE, createdAt |-> t,
                         lastActivity |-> t, host |-> c]
                   ELSE [st.meta[r] EXCEPT !.lastActivity = t]
        clients == SeqRemove(rs[r], c)
        out     == <<Ev("all-users", c, c, r, clients)>>
                      \o SocketToRoom(rs, c, r, "user-joined", <<c>>)
    IN  [st EXCEPT !.rooms = rs,
                   !.meta  = [st.meta EXCEPT ![r] = md],
                   !.out   = st.out \o out]

\* join-room that records the joining socket as host on every join
JoinRoomHandler_HostIsLastJoiner(st, c, r, t) ==
    LET rs      == [st.rooms EXCEPT ![r] = SetAdd(@, c)]
        md      == IF ~st.meta[r].present
                   THEN [present |-> TRUE, createdAt |-> t,
                         lastActivity |-> t, host |-> c]
                   ELSE [st.meta[r] EXCEPT !.lastActivity = t, !.host = c]
        clients == SeqRemove(rs[r], c)
        out     == <<Ev("all-users", c, c, r, clients)>>
                      \o SocketToRoom(rs, c, r, "user-joined", <<c>>)
    IN  [st EXCEPT !.rooms = rs,
                   !.meta  = [st.meta EXCEPT ![r] = md],
                   !.out   = st.out \o out]

\* socket.on('join-room', roomId)
JoinRoomHandler(st, c, r, t) ==
    LET rs      == [st.rooms EXCEPT ![r] = SetAdd(@, c)]
        md      == IF ~st.meta[r].present
                   THEN [present |-> TRUE, createdAt |-> t,
                         lastActivity |-> t, host |-> c]
                   ELSE [st.meta[r] EXCEPT !.lastActivity = t]
        clients == SeqRemove(rs[r], c)
        out     == <<Ev("all-users", c, c, r, clients)>>
                      \o SocketToRoom(rs, c, r, "user-joined", <<c>>)
    IN  [st EXCEPT !.rooms = rs,
                   !.meta  = [st.meta EXCEPT ![r] = md],
                   !.out   = st.out \o out]

\* what a client puts in the data of a signal: the target `to` (absent:
\* NoTarget) and whatever else it likes, here a sender id of its choosing
SignalData == [to : Clients \cup {NoTarget}, from : Clients \cup {NoTarget}]

\* a signal handler that tags the message with the sender the data names
SignalHandler_SenderFromData(st, c, r, data) ==
    LET who == IF data.from # NoTarget THEN data.from ELSE c IN
    [st EXCEPT !.out = st.out \o
        (IF data.to # NoTarget
         THEN IoToSocket(st.connected, data.to, "signal", who, r, data)
         ELSE SocketToRoom(st.rooms, c, r, "signal", data))]

\* a signal handler whose broadcast goes to the whole room
SignalHandler_IoToRoom(st, c, r, data) ==
    [st EXCEPT !.out = st.out \o
        (IF data.to # NoTarget
         THEN IoToSocket(st.connected, data.to, "signal", c, r, data)
         ELSE IoToRoom(st.rooms, r, "signal", c, data))]

\* socket.on('signal', {roomId, data}): the message is {sender: socket.id,
\* data}, the data passed on as it came
SignalHandler(st, c, r, data) ==
    [st EXCEPT !.out = st.out \o
        (IF data.to # NoTarget
         THEN IoToSocket(st.connected, data.to, "signal", c, r, data)
         ELSE SocketToRoom(st.rooms, c, r, "signal", data))]

RECURSIVE LeaveNotices_FirstRoomOnly(_, _, _, _)
\* a first loop that stops after the first room of the socket
LeaveNotices_FirstRoomOnly(st, c, order, t) ==
    IF order = <<>> THEN st
    ELSE LET r == Head(order) IN
         IF c \in SeqToSet(st.rooms[r])
         THEN [st EXCEPT
                 !.out  = st.out \o SocketToRoom(st.rooms, c, r, "user-left", <<c>>),
                 !.meta = IF st.meta[r].present
                          THEN [st.meta EXCEPT ![r].lastActivity = t]
                          ELSE st.meta]
         ELSE LeaveNotices_FirstRoomOnly(st, c, Tail(order), t)

RECURSIVE LeaveNotices(_, _, _, _)
\* first loop of 'disconnecting': user-left to each room of the socket and
\* a lastActivity refresh of each such room that has metadata
LeaveNotices(st, c, order, t) ==
    IF order = <<>> THEN st
    ELSE LET r == Head(order) IN
         IF c \in SeqToSet(st.rooms[r])
         THEN LeaveNotices(
                [st EXCEPT
                   !.out  = st.out \o SocketToRoom(st.rooms, c, r, "user-left", <<c>>),
                   !.meta = IF st.meta[r].present
                            THEN [st.meta EXCEPT ![r].lastActivity = t]
                            ELSE st.meta],
                c, Tail(order), t)
         ELSE LeaveNotices(st, c, Tail(order), t)

RECURSIVE HostCheck(_, _, _)
\* second loop of 'disconnecting': meeting-ended when the socket is the
\* roomHosts entry of one of its rooms
HostCheck(st, c, order) ==
    IF order = <<>> THEN st
    ELSE LET r == Head(order) IN
         IF c \in SeqToSet(st.rooms[r]) /\ st.hosts[r] = c
         THEN HostCheck(
                [st EXCEPT
                   !.out   = st.out \o SocketToRoom(st.rooms, c, r, "meeting-ended", <<>>),
                   !.hosts = [st.hosts EXCEPT ![r] = NoHost]],
                c, Tail(order))
         ELSE HostCheck(st, c, Tail(order))

\* socket.on('disconnecting'), then socket.io removes the socket from all
\* its rooms and forgets it
DisconnectingHandler(st, c, t) ==
    LET s1 == LeaveNotices(st, c, RoomOrder, t)
        s2 == HostCheck(s1, c, RoomOrder)
    IN  [s2 EXCEPT !.rooms     = [r \in RoomIds |-> SeqRemove(s2.rooms[r], c)],
                   !.connected = s2.connected \ {c},
                   !.gone      = s2.gone \cup {c}]

\* a validate-room that answers from roomMetadata alone
ValidateRoomHandler_MetadataOnly(st, r, t) ==
    IF st.meta[r].present
    THEN [st EXCEPT
            !.meta = [st.meta EXCEPT ![r].lastActivity = t],
            !.out  = st.out \o <<Ev("validate-room", NoTarget, NoTarget, r,
                                    [exists |-> TRUE,
                                     participants |-> Len(st.rooms[r])])>>]
    ELSE [st EXCEPT
            !.out  = st.out \o <<Ev("validate-room", NoTarget, NoTarget, r,
                                    [exists |-> FALSE])>>]

\* app.get('/validate-room/:roomId'): the adapter has the room only while it
\* has a member; the response goes to the requester
ValidateRoomHandler(st, r, t) ==
    IF st.rooms[r] # <<>> /\ st.meta[r].present
    THEN [st EXCEPT
            !.meta = [st.meta EXCEPT ![r].lastActivity = t],
            !.out  = st.out \o <<Ev("validate-room", NoTarget, NoTarget, r,
                                    [exists |-> TRUE,
                                     participants |-> Len(st.rooms[r])])>>]
    ELSE [st EXCEPT
            !.out  = st.out \o <<Ev("validate-room", NoTarget, NoTarget, r,
                                    [exists |-> FALSE])>>]

\* a listener throws: socket.io calls listeners outside any try, the process
\* has no uncaughtException handler, so Node ends the process.  Every
\* connection drops with it and no 'disconnecting' handler runs.
UncaughtException(st) ==
    [st EXCEPT !.connected = {},
               !.gone      = st.gone \cup st.connected,
               !.rooms     = [r \in RoomIds |-> <<>>],
               !.meta      = [r \in RoomIds |-> NoMeta],
               !.hosts     = [r \in RoomIds |-> NoHost]]

RECURSIVE DisconnectSockets(_, _, _)
\* io.in(roomId).disconnectSockets(true)
DisconnectSockets(st, members, t) ==
    IF members = <<>> THEN st
    ELSE DisconnectSockets(
            IF Head(members) \in st.connected
            THEN DisconnectingHandler(st, Head(members), t)
            ELSE st,
            Tail(members), t)

RECURSIVE CleanupExpiredRooms(_, _, _)
\* cleanupExpiredRooms
CleanupExpiredRooms(st, order, t) ==
    IF order = <<>> THEN st
    ELSE LET r == Head(order) IN
         IF st.meta[r].present /\ t - st.meta[r].lastActivity > ROOM_EXPIRY_TIME
         THEN LET s1 == [st EXCEPT
                           !.meta = [st.meta EXCEPT ![r] = NoMeta],
                           !.out  = st.out \o IoToRoom(st.rooms, r, "room-expired", NoTarget, <<>>)]
              IN  CleanupExpiredRooms(DisconnectSockets(s1, s1.rooms[r], t),
                                      Tail(order), t)
         ELSE CleanupExpiredRooms(st, Tail(order), t)

\* ------------------------------------------------------------------------
\* Client: the RTCPeerConnection primitive, as far as the handlers use it
\* ------------------------------------------------------------------------

\* localStream.getTracks()
LocalTracks == <<"audio", "video">>

\* new RTCPeerConnection(...); `how` records what created it, `senders`
\* the tracks of pc.getSenders(), one entry per addTrack
NewPc(r, how) ==
    [remote |-> r, sig |-> "stable", hasRemote |-> FALSE,
     applied |-> <<>>, appliedEarly |-> FALSE, recv |-> <<>>,
     offerCalls |-> 0, offers |-> 0, answers |-> 0, how |-> how,
     senders |-> <<>>]

RECURSIVE AddTracks(_, _, _)
\* tracks.forEach(track => { if (!skip.includes(track)) pc.addTrack(track,
\* localStream) })
AddTracks(pc, tracks, skip) ==
    IF tracks = <<>> THEN pc
    ELSE AddTracks(IF Head(tracks) \in skip THEN pc
                   ELSE [pc EXCEPT !.senders = Append(@, Head(tracks))],
                   Tail(tracks), skip)

\* a defensive loop that adds every local track again
AttachMissing_NoCheck(pc) == AddTracks(pc, LocalTracks, {})

\* "Defensive: Ensure local tracks are present" of the offer and answer
\* branches: senders is read once, before the loop
AttachMissing(pc) == AddTracks(pc, LocalTracks, SeqToSet(pc.senders))

\* pc.setRemoteDescription(offer) by signalingState.  In have-local-offer a
\* browser either rolls the local offer back and accepts (current WebRTC)
\* or rejects with InvalidStateError (older engines): both are outcomes.
SrdOfferOutcomes(sig) ==
    CASE sig = "stable"            -> {"have-remote-offer"}
      [] sig = "have-remote-offer" -> {"have-remote-offer"}
      [] sig = "have-local-offer"  -> {"have-remote-offer", "reject"}
      [] OTHER                     -> {"reject"}

\* a setRemoteDescription(answer) that succeeds in every signaling state
SrdAnswerOutcomes_AnyState(sig) == {"stable"}

\* pc.setRemoteDescription(answer)
SrdAnswerOutcomes(sig) ==
    IF sig = "have-local-offer" THEN {"stable"} ELSE {"reject"}

\* pc.setLocalDescription(offer)
SldOfferOutcomes(sig) ==
    IF sig \in {"stable", "have-local-offer"} THEN {"have-local-offer"} ELSE {"reject"}

\* pc.createAnswer() and pc.setLocalDescription(answer)
AnswerAllowed(sig) == sig = "have-remote-offer"

\* ------------------------------------------------------------------------
\* Client: handlers as functions of the session state
\* ------------------------------------------------------------------------

ClientState ==
    [peersRef |-> peersRef, pcs |-> pcs, queue |-> candidateQueue, tasks |-> tasks]

\* a handler invocation suspended at the await `at`; `arr` and `i` are the
\* array and position of its for-of loop over the candidate queue
Task(h, pc, from, at, arr, i) ==
    [h |-> h, pc |-> pc, from |-> from, at |-> at, arr |-> arr, i |-> i]

\* a handler calls an operation of pc `id` and awaits it: the call goes to
\* the end of the pc's operations chain, which runs in call order
Call(cst, id, t) == [cst EXCEPT !.tasks = [cst.tasks EXCEPT ![id] = Append(@, t)]]

\* the invocation at the head of the chain of pc `id` ends (it returned, or
\* the awaited promise rejected)
Finish(cst, id) == [cst EXCEPT !.tasks = [cst.tasks EXCEPT ![id] = Tail(@)]]

\* the invocation at the head of the chain of pc `id` resumes, calls its
\* next pc operation and awaits it
Await(cst, id, t) == Call(Finish(cst, id), id, t)

\* createPeerConnection(id), the addTrack loop and peersRef.current[id] = pc
CreatePeerConnection(cst, r, how) ==
    [cst EXCEPT !.pcs = Append(cst.pcs, AddTracks(NewPc(r, how), LocalTracks, {})),
                !.tasks = Append(cst.tasks, <<>>),
                !.peersRef = [cst.peersRef EXCEPT ![r] = Len(cst.pcs) + 1]]

\* handleUserJoined without its "Already connected" return
HandleUserJoined_NoGuard(cst, r) ==
    LET s1 == CreatePeerConnection(cst, r, "user-joined")
        id == s1.peersRef[r]
    IN  Call([s1 EXCEPT !.pcs = [s1.pcs EXCEPT ![id].offerCalls = @ + 1]],
             id, Task("join", id, r, "createOffer", <<>>, 0))

\* handleUserJoined up to its first await
HandleUserJoined(cst, r) ==
    IF cst.peersRef[r] # 0 THEN cst
    ELSE LET s1 == CreatePeerConnection(cst, r, "user-joined")
             id == s1.peersRef[r]
         IN  Call([s1 EXCEPT !.pcs = [s1.pcs EXCEPT ![id].offerCalls = @ + 1]],
                  id, Task("join", id, r, "createOffer", <<>>, 0))

RECURSIVE HandleAllUsers(_, _)
\* users.forEach(async id => await handleUserJoined(id)): every invocation
\* runs to its first await before the next one starts
HandleAllUsers(cst, users) ==
    IF users = <<>> THEN cst
    ELSE HandleAllUsers(HandleUserJoined(cst, Head(users)), Tail(users))

\* pc.addIceCandidate(candidate) on pc `id`
AddIceCandidate(cst, id, c) ==
    [cst EXCEPT !.pcs = [cst.pcs EXCEPT
        ![id].applied = Append(@, c),
        ![id].appliedEarly = @ \/ ~cst.pcs[id].hasRemote]]

\* a candidate branch that never looks at pc.remoteDescription
HandleCandidate_NoRemoteCheck(cst, r, id, c) ==
    AddIceCandidate([cst EXCEPT !.pcs = [cst.pcs EXCEPT ![id].recv = Append(@, c)]], id, c)

\* the candidate branch of handleSignal
HandleCandidate(cst, r, id, c) ==
    LET s1 == [cst EXCEPT !.pcs = [cst.pcs EXCEPT ![id].recv = Append(@, c)]]
    IN  IF s1.pcs[id].hasRemote
        THEN AddIceCandidate(s1, id, c)
        ELSE [s1 EXCEPT !.queue = [s1.queue EXCEPT ![r] = Append(@, c)]]

\* handleSignal that creates a peer connection for every signal
HandleSignal_AlwaysCreate(cst, r, type, c) ==
    LET s1 == CreatePeerConnection(cst, r, type)
        id == s1.peersRef[r]
        s2 == [s1 EXCEPT !.pcs = [s1.pcs EXCEPT ![id] = AttachMissing(@)]]
    IN  CASE type = "offer"  -> Call(s2, id, Task("offer", id, r, "srd", <<>>, 0))
          [] type = "answer" -> Call(s2, id, Task("answer", id, r, "srd", <<>>, 0))
          [] OTHER           -> HandleCandidate(s1, r, id, c)

\* handleSignal up to its first await
HandleSignal(cst, r, type, c) ==
    LET s1 == IF cst.peersRef[r] = 0
              THEN CreatePeerConnection(cst, r, type)
              ELSE cst
        id == s1.peersRef[r]
        s2 == [s1 EXCEPT !.pcs = [s1.pcs EXCEPT ![id] = AttachMissing(@)]]
    IN  CASE type = "offer"  -> Call(s2, id, Task("offer", id, r, "srd", <<>>, 0))
          [] type = "answer" -> Call(s2, id, Task("answer", id, r, "srd", <<>>, 0))
          [] OTHER           -> HandleCandidate(s1, r, id, c)

\* a handleUserLeft that drops the mapping entry without closing the pc
HandleUserLeft_NoClose(cst, r) ==
    IF cst.peersRef[r] = 0 THEN cst
    ELSE [cst EXCEPT !.peersRef = [cst.peersRef EXCEPT ![r] = 0]]

\* handleUserLeft.  close() ends the pc: an operation pending on a closed
\* pc never settles, so the invocations awaiting one never resume.
HandleUserLeft(cst, r) ==
    IF cst.peersRef[r] = 0 THEN cst
    ELSE LET id == cst.peersRef[r] IN
         [cst EXCEPT !.pcs = [cst.pcs EXCEPT ![id].sig = "closed"],
                     !.peersRef = [cst.peersRef EXCEPT ![r] = 0],
                     !.tasks = [cst.tasks EXCEPT ![id] = <<>>]]

\* handleMeetingEnded: the local tracks are stopped and every pc of
\* peersRef is closed; peersRef itself is left as it is
HandleMeetingEnded(cst) ==
    LET held(id) == \E r \in Remotes : cst.peersRef[r] = id IN
    IF cst.pcs = <<>> THEN cst
    ELSE [cst EXCEPT
            !.pcs = [id \in 1..Len(cst.pcs) |->
                        IF held(id) THEN [cst.pcs[id] EXCEPT !.sig = "closed"]
                        ELSE cst.pcs[id]],
            !.tasks = [id \in 1..Len(cst.pcs) |->
                        IF held(id) THEN <<>> ELSE cst.tasks[id]]]

\* an unmount that leaves the peer connections open
Unmount_NoClose(cst) == cst

\* "Cleanup on unmount": Object.values(peersRef.current).forEach(pc =>
\* pc.close()).  The entries are not deleted; the refs go with the instance.
Unmount(cst) ==
    LET held(id) == \E r \in Remotes : cst.peersRef[r] = id IN
    IF cst.pcs = <<>> THEN cst
    ELSE [cst EXCEPT
            !.pcs = [id \in 1..Len(cst.pcs) |->
                        IF held(id) THEN [cst.pcs[id] EXCEPT !.sig = "closed"]
                        ELSE cst.pcs[id]],
            !.tasks = [id \in 1..Len(cst.pcs) |->
                        IF held(id) THEN <<>> ELSE cst.tasks[id]]]

\* after the for-of loop, or when the queue was empty: the offer branch goes
\* on to createAnswer, the answer branch returns
AfterDrain(cst, t) ==
    IF t.h = "offer" THEN Await(cst, t.pc, [t EXCEPT !.at = "createAnswer"])
    ELSE Finish(cst, t.pc)

\* "Process any queued ICE candidates", entered once the remote description
\* is set: the loop starts on the queue as it is now
StartDrain(cst, t) ==
    LET q == cst.queue[t.from] IN
    IF Len(q) > 0
    THEN Await(AddIceCandidate(cst, t.pc, q[1]), t.pc,
               [t EXCEPT !.at = "drain", !.arr = q, !.i = 1])
    ELSE AfterDrain(cst, t)

\* one more turn of the for-of loop; after the last one the queue is reset
ContinueDrain(cst, t) ==
    IF t.i < Len(t.arr)
    THEN Await(AddIceCandidate(cst, t.pc, t.arr[t.i + 1]), t.pc, [t EXCEPT !.i = @ + 1])
    ELSE AfterDrain([cst EXCEPT !.queue = [cst.queue EXCEPT ![t.from] = <<>>]], t)

SetSig(cst, id, sig) == [cst EXCEPT !.pcs = [cst.pcs EXCEPT ![id].sig = sig]]

SetRemote(cst, id, sig) ==
    [cst EXCEPT !.pcs = [cst.pcs EXCEPT ![id].sig = sig, ![id].hasRemote = TRUE]]

\* handleUserJoined after an await: createOffer, setLocalDescription, emit
ResumeJoin(cst, t, o) ==
    IF t.at = "createOffer" THEN Await(cst, t.pc, [t EXCEPT !.at = "setLocal"])
    ELSE IF o = "reject" THEN Finish(cst, t.pc)
    ELSE LET s1 == SetSig(cst, t.pc, o) IN
         Finish([s1 EXCEPT !.pcs = [s1.pcs EXCEPT ![t.pc].offers = @ + 1]], t.pc)

\* the offer branch of handleSignal after an await
ResumeOffer(cst, t, o) ==
    CASE t.at = "srd" ->
           IF o = "reject" THEN Finish(cst, t.pc)
           ELSE StartDrain(SetRemote(cst, t.pc, o), t)
      [] t.at = "drain" -> ContinueDrain(cst, t)
      [] t.at = "createAnswer" ->
           IF AnswerAllowed(cst.pcs[t.pc].sig)
           THEN Await(cst, t.pc, [t EXCEPT !.at = "setLocal"])
           ELSE Finish(cst, t.pc)
      [] OTHER ->
           IF AnswerAllowed(cst.pcs[t.pc].sig)
           THEN LET s1 == SetSig(cst, t.pc, "stable") IN
                Finish([s1 EXCEPT !.pcs = [s1.pcs EXCEPT ![t.pc].answers = @ + 1]], t.pc)
           ELSE Finish(cst, t.pc)

\* the answer branch of handleSignal after an await
ResumeAnswer(cst, t, o) ==
    IF t.at = "srd"
    THEN IF o = "reject" THEN Finish(cst, t.pc)
         ELSE StartDrain(SetRemote(cst, t.pc, o), t)
    ELSE ContinueDrain(cst, t)

\* the invocation t, at the head of its chain, resumes with outcome o
ResumeTask(cst, t, o) ==
    CASE t.h = "join"  -> ResumeJoin(cst, t, o)
      [] t.h = "offer" -> ResumeOffer(cst, t, o)
      [] OTHER         -> ResumeAnswer(cst, t, o)

\* what the awaited pc operation of task t can yield
Outcomes(cst, t) ==
    LET sig == cst.pcs[t.pc].sig IN
    CASE t.h = "join"   /\ t.at = "setLocal" -> SldOfferOutcomes(sig)
      [] t.h = "offer"  /\ t.at = "srd"      -> SrdOfferOutcomes(sig)
      [] t.h = "answer" /\ t.at = "srd"      -> SrdAnswerOutcomes(sig)
      [] OTHER                                -> {"ok"}

\* ------------------------------------------------------------------------
\* Relay: actions
\* ------------------------------------------------------------------------

Commit(st, op) ==
    /\ connected'    = st.connected
    /\ gone'         = st.gone
    /\ rooms'        = st.rooms
    /\ roomMetadata' = st.meta
    /\ roomHosts'    = st.hosts
    /\ emitted'      = st.out
    /\ lastOp'       = op

\* io.on('connection')
Connect(c) ==
    /\ c \notin connected \cup gone
    /\ Commit([RelayState EXCEPT !.connected = connected \cup {c}],
              Op("connection", c, NoTarget, NoTarget, <<>>, NoHost))
    /\ UNCHANGED <<now, ticks>>
    /\ UNCHANGED clientVars
    /\ UNCHANGED pairVars /\ UNCHANGED chatVars

JoinRoom(c, r) ==
    /\ c \in connected
    /\ Commit(JoinRoomHandler(RelayState, c, r, now),
              Op("join-room", c, r, NoTarget, rooms[r], roomMetadata[r].host))
    /\ UNCHANGED <<now, ticks>>
    /\ UNCHANGED clientVars
    /\ UNCHANGED pairVars /\ UNCHANGED chatVars

Signal(c, r, data) ==
    /\ c \in connected
    /\ Commit(SignalHandler(RelayState, c, r, data),
              Op("signal", c, r, data.to, rooms[r], roomMetadata[r].host))
    /\ UNCHANGED <<now, ticks>>
    /\ UNCHANGED clientVars
    /\ UNCHANGED pairVars /\ UNCHANGED chatVars

Disconnect(c) ==
    /\ c \in connected
    /\ Commit(DisconnectingHandler(RelayState, c, now),
              Op("disconnecting", c, NoTarget, NoTarget, <<>>, NoHost))
    /\ UNCHANGED <<now, ticks>>
    /\ UNCHANGED clientVars
    /\ UNCHANGED pairVars /\ UNCHANGED chatVars

\* a signal, media-status-change or chat-message without payload, or a
\* signal without data: the handler throws a TypeError when it destructures
\* the payload or reads data.type
MalformedMessage(c) ==
    /\ c \in connected
    /\ Commit(UncaughtException(RelayState),
              Op("malformed", c, NoTarget, NoTarget, <<>>, NoHost))
    /\ UNCHANGED <<now, ticks>>
    /\ UNCHANGED clientVars
    /\ UNCHANGED pairVars /\ UNCHANGED chatVars

ValidateRoom(r) ==
    /\ Commit(ValidateRoomHandler(RelayState, r, now),
              Op("validate-room", NoTarget, r, NoTarget, rooms[r], roomMetadata[r].host))
    /\ UNCHANGED <<now, ticks>>
    /\ UNCHANGED clientVars
    /\ UNCHANGED pairVars /\ UNCHANGED chatVars

Sweep ==
    /\ \E r \in RoomIds : roomMetadata[r].present
    /\ Commit(CleanupExpiredRooms(RelayState, RoomOrder, now),
              Op("sweep", NoTarget, NoTarget, NoTarget, <<>>, NoHost))
    /\ UNCHANGED <<now, ticks>>
    /\ UNCHANGED clientVars
    /\ UNCHANGED pairVars /\ UNCHANGED chatVars

\* The App of the socket c that the sweep has just disconnected from room r:
\* its disconnect handler calls socket.connect() and its connect handler
\* emits join-room with the room it still has.  The new connection has a
\* fresh id d.
AppReconnect(c, d, r) ==
    /\ lastOp.op = "sweep"
    /\ \E i \in 1..Len(emitted) :
          /\ emitted[i].ev = "room-expired"
          /\ emitted[i].to = c
          /\ emitted[i].room = r
    /\ c \in gone
    /\ d \notin connected \cup gone
    /\ Commit(JoinRoomHandler([RelayState EXCEPT !.connected = connected \cup {d}],
                              d, r, now),
              Op("reconnect", d, r, NoTarget, rooms[r], roomMetadata[r].host))
    /\ UNCHANGED <<now, ticks>>
    /\ UNCHANGED clientVars
    /\ UNCHANGED pairVars /\ UNCHANGED chatVars

Tick(d) ==
    /\ ticks < MaxTicks
    /\ now' = now + d
    /\ ticks' = ticks + 1
    /\ UNCHANGED <<connected, gone, rooms, roomMetadata, roomHosts,
                   lastOp, emitted>>
    /\ UNCHANGED clientVars
    /\ UNCHANGED pairVars /\ UNCHANGED chatVars

\* ------------------------------------------------------------------------
\* Client: actions
\* ------------------------------------------------------------------------

NoneDelivered == [joined |-> 0, offer |-> 0, answer |-> 0, cand |-> 0, left |-> FALSE]

NoEvent == [ev |-> "none", from |-> <<>>]

ClientInit ==
    /\ phase = "mounted"
    /\ peersRef = [r \in Remotes |-> 0]
    /\ pcs = <<>>
    /\ candidateQueue = [r \in Remotes |-> <<>>]
    /\ tasks = <<>>
    /\ delivered = [r \in Remotes |-> NoneDelivered]
    /\ discarded = NoEvent
    /\ mount = [n |-> 1, older |-> 0]

CommitClient(cst) ==
    /\ Len(cst.pcs) <= MaxPcs
    /\ discarded' = NoEvent
    /\ peersRef' = cst.peersRef
    /\ pcs' = cst.pcs
    /\ candidateQueue' = cst.queue
    /\ tasks' = cst.tasks

\* no handler is registered for the event: socket.io-client discards it
Discard(ev, from) ==
    /\ discarded' = [ev |-> ev, from |-> from]
    /\ UNCHANGED <<peersRef, pcs, candidateQueue, tasks>>

Handled == phase = "ready"

RECURSIVE SumOver(_)
SumOver(S) ==
    IF S = {} THEN 0
    ELSE LET r == CHOOSE x \in S : TRUE
             d == delivered[r]
         IN  d.joined + d.offer + d.answer + d.cand + SumOver(S \ {r})

\* events handled so far
Total == SumOver(Remotes)

\* getUserMedia resolved: the second effect of useWebRTCConnection registers
\* the handlers and emits join-room
StreamReady ==
    /\ phase = "mounted"
    /\ phase' = "ready"
    /\ discarded' = NoEvent
    /\ UNCHANGED <<peersRef, pcs, candidateQueue, tasks, delivered>>
    /\ UNCHANGED mount
    /\ UNCHANGED relayVars
    /\ UNCHANGED pairVars /\ UNCHANGED chatVars

\* getUserMedia rejected (camera or microphone denied): the catch logs the
\* error, localStream stays null and the second effect returns at its guard
StreamFailed ==
    /\ phase = "mounted"
    /\ phase' = "nomedia"
    /\ discarded' = NoEvent
    /\ UNCHANGED <<peersRef, pcs, candidateQueue, tasks, delivered>>
    /\ UNCHANGED mount
    /\ UNCHANGED relayVars
    /\ UNCHANGED pairVars /\ UNCHANGED chatVars

\* the ways the relay can list a non-empty set of other members
UserLists == {<<"p">>, <<"q">>, <<"p", "q">>, <<"q", "p">>}

\* socket.on("all-users", users => ...)
OnAllUsers(users) ==
    /\ \A r \in SeqToSet(users) : ~delivered[r].left
    /\ Total + Len(users) <= MaxEvents
    /\ IF Handled
       THEN /\ CommitClient(HandleAllUsers(ClientState, users))
            /\ delivered' = [r \in Remotes |->
                                IF r \in SeqToSet(users)
                                THEN [delivered[r] EXCEPT !.joined = @ + 1]
                                ELSE delivered[r]]
       ELSE Discard("all-users", users) /\ UNCHANGED delivered
    /\ UNCHANGED phase
    /\ UNCHANGED mount
    /\ UNCHANGED relayVars
    /\ UNCHANGED pairVars /\ UNCHANGED chatVars

\* socket.on("user-joined", handleUserJoined)
OnUserJoined(r) ==
    /\ ~delivered[r].left
    /\ Total < MaxEvents
    /\ IF Handled
       THEN /\ CommitClient(HandleUserJoined(ClientState, r))
            /\ delivered' = [delivered EXCEPT ![r].joined = @ + 1]
       ELSE Discard("user-joined", <<r>>) /\ UNCHANGED delivered
    /\ UNCHANGED phase
    /\ UNCHANGED mount
    /\ UNCHANGED relayVars
    /\ UNCHANGED pairVars /\ UNCHANGED chatVars

\* socket.on("signal", handleSignal) with an offer or an answer
OnSignalSdp(r, type) ==
    /\ ~delivered[r].left
    /\ Total < MaxEvents
    /\ IF Handled
       THEN /\ CommitClient(HandleSignal(ClientState, r, type, 0))
            /\ delivered' = [delivered EXCEPT ![r][type] = @ + 1]
       ELSE Discard(type, <<r>>) /\ UNCHANGED delivered
    /\ UNCHANGED phase
    /\ UNCHANGED mount
    /\ UNCHANGED relayVars
    /\ UNCHANGED pairVars /\ UNCHANGED chatVars

\* socket.on("signal", handleSignal) with the remote's next candidate
OnSignalCandidate(r) ==
    /\ ~delivered[r].left
    /\ Total < MaxEvents
    /\ IF Handled
       THEN /\ CommitClient(HandleSignal(ClientState, r, "candidate", delivered[r].cand + 1))
            /\ delivered' = [delivered EXCEPT ![r].cand = @ + 1]
       ELSE Discard("candidate", <<r>>) /\ UNCHANGED delivered
    /\ UNCHANGED phase
    /\ UNCHANGED mount
    /\ UNCHANGED relayVars
    /\ UNCHANGED pairVars /\ UNCHANGED chatVars

\* socket.on("user-left", handleUserLeft): the relay sends it when the
\* remote's socket disconnects, so nothing from that id follows it
OnUserLeft(r) ==
    /\ ~delivered[r].left
    /\ delivered' = [delivered EXCEPT ![r].left = TRUE]
    /\ IF Handled THEN CommitClient(HandleUserLeft(ClientState, r))
                  ELSE Discard("user-left", <<r>>)
    /\ UNCHANGED phase
    /\ UNCHANGED mount
    /\ UNCHANGED relayVars
    /\ UNCHANGED pairVars /\ UNCHANGED chatVars

\* one operations chain for all peer connections: an operation settles only
\* when no peer connection created earlier has one pending
Resume_SharedChain(id) ==
    /\ id \in 1..Len(pcs)
    /\ tasks[id] # <<>>
    /\ pcs[id].sig # "closed"
    /\ \A j \in 1..(id - 1) : tasks[j] = <<>>
    /\ \E o \in Outcomes(ClientState, Head(tasks[id])) :
          CommitClient(ResumeTask(ClientState, Head(tasks[id]), o))
    /\ UNCHANGED <<phase, delivered>>
    /\ UNCHANGED mount
    /\ UNCHANGED relayVars
    /\ UNCHANGED pairVars /\ UNCHANGED chatVars

\* socket.on('meeting-ended', handleMeetingEnded); VideoCall leaves the
\* call 1500 ms later, the handlers stay registered until then
OnMeetingEnded ==
    /\ IF Handled THEN CommitClient(HandleMeetingEnded(ClientState))
                  ELSE Discard("meeting-ended", <<>>)
    /\ UNCHANGED <<phase, delivered>>
    /\ UNCHANGED mount
    /\ UNCHANGED relayVars
    /\ UNCHANGED pairVars /\ UNCHANGED chatVars

\* the operation at the head of the chain of pc `id` settles and the
\* invocation awaiting it runs to its next await
Resume(id) ==
    /\ id \in 1..Len(pcs)
    /\ tasks[id] # <<>>
    /\ pcs[id].sig # "closed"
    /\ \E o \in Outcomes(ClientState, Head(tasks[id])) :
          CommitClient(ResumeTask(ClientState, Head(tasks[id]), o))
    /\ UNCHANGED <<phase, delivered>>
    /\ UNCHANGED mount
    /\ UNCHANGED relayVars
    /\ UNCHANGED pairVars /\ UNCHANGED chatVars

ClientNext ==
    \/ StreamReady
    \/ StreamFailed
    \/ \E users \in UserLists : OnAllUsers(users)
    \/ \E r \in Remotes : OnUserJoined(r)
    \/ \E r \in Remotes, type \in {"offer", "answer"} : OnSignalSdp(r, type)
    \/ \E r \in Remotes : OnSignalCandidate(r)
    \/ \E r \in Remotes : OnUserLeft(r)
    \/ \E id \in 1..MaxPcs : Resume(id)

\* socket.on('disconnect'): setSocketConnected(false) stops the rendering of
\* VideoCall, so the hook's effects are cleaned up: the handlers are removed
\* and the unmount cleanup runs
SocketDisconnect ==
    /\ phase # "offline"
    /\ phase' = "offline"
    /\ CommitClient(Unmount(ClientState))
    /\ mount' = [mount EXCEPT !.older = Len(pcs)]
    /\ UNCHANGED delivered
    /\ UNCHANGED relayVars
    /\ UNCHANGED pairVars /\ UNCHANGED chatVars

\* socket.on('connect') after a reconnect: setSocketConnected(true) and
\* join-room again; VideoCall is rendered anew and its hook starts with
\* fresh refs and a new getUserMedia
SocketReconnect ==
    /\ phase = "offline"
    /\ mount.n < MaxMounts
    /\ phase' = "mounted"
    /\ peersRef' = [r \in Remotes |-> 0]
    /\ candidateQueue' = [r \in Remotes |-> <<>>]
    /\ mount' = [mount EXCEPT !.n = @ + 1]
    /\ UNCHANGED <<pcs, tasks, delivered, discarded>>
    /\ UNCHANGED relayVars
    /\ UNCHANGED pairVars /\ UNCHANGED chatVars

\* a session that is told the meeting has ended
EndedNext ==
    \/ StreamReady
    \/ \E r \in Remotes : OnUserJoined(r)
    \/ \E r \in Remotes : OnSignalSdp(r, "offer")
    \/ OnMeetingEnded
    \/ \E id \in 1..MaxPcs : Resume(id)

\* a session whose socket disconnects and reconnects; nothing is delivered
\* while the socket is disconnected
LifeNext ==
    \/ StreamReady
    \/ phase # "offline" /\ \E r \in Remotes : OnUserJoined(r)
    \/ phase # "offline" /\ \E r \in Remotes : OnUserLeft(r)
    \/ \E id \in 1..MaxPcs : Resume(id)
    \/ SocketDisconnect
    \/ SocketReconnect

\* a pending operation of a peer connection for remote r settles
ResumeFor(r) ==
    \E id \in 1..MaxPcs : id <= Len(pcs) /\ pcs[id].remote = r /\ Resume(id)

\* a session with remotes p and q: p is offered to and answers; q sends
\* whatever it likes, or nothing
IndepNext ==
    \/ StreamReady
    \/ \E r \in Remotes : OnUserJoined(r)
    \/ OnSignalSdp("p", "answer")
    \/ \E type \in {"offer", "answer"} : OnSignalSdp("q", type)
    \/ \E r \in Remotes : ResumeFor(r)

\* ------------------------------------------------------------------------
\* Two sessions on one relay: actions
\* ------------------------------------------------------------------------

\* the hook's refs before any handler has run
NoPeers ==
    [peersRef |-> [r \in Remotes |-> 0], pcs |-> <<>>,
     queue |-> [r \in Remotes |-> <<>>], tasks |-> <<>>]

PairInit ==
    /\ sessions = [x \in Remotes |-> [phase |-> "idle", cst |-> NoPeers]]
    /\ wire = [x \in Remotes |-> <<>>]

\* the relay's emissions go to the sockets they are addressed to
Route(w, out) ==
    [x \in Remotes |-> w[x] \o SelectSeq(out, LAMBDA e : e.to = x)]

\* App mounts for socket x: the socket connects and App emits join-room
PairConnect(x) ==
    /\ sessions[x].phase = "idle"
    /\ x \notin connected \cup gone
    /\ LET s1 == [RelayState EXCEPT !.connected = connected \cup {x}]
           s2 == JoinRoomHandler(s1, x, PairRoom, now)
       IN  /\ Commit(s2, Op("join-room", x, PairRoom, NoTarget,
                            rooms[PairRoom], roomMetadata[PairRoom].host))
           /\ wire' = Route(wire, s2.out)
    /\ sessions' = [sessions EXCEPT ![x].phase = "mounted"]
    /\ UNCHANGED <<now, ticks>>
    /\ UNCHANGED clientVars /\ UNCHANGED chatVars

\* getUserMedia resolved for x: the hook registers its handlers and emits
\* join-room
PairStreamReady(x) ==
    /\ sessions[x].phase = "mounted"
    /\ LET s1 == JoinRoomHandler(RelayState, x, PairRoom, now)
       IN  /\ Commit(s1, Op("join-room", x, PairRoom, NoTarget,
                            rooms[PairRoom], roomMetadata[PairRoom].host))
           /\ wire' = Route(wire, s1.out)
    /\ sessions' = [sessions EXCEPT ![x].phase = "ready"]
    /\ UNCHANGED <<now, ticks>>
    /\ UNCHANGED clientVars /\ UNCHANGED chatVars

\* the handler of session x registered for event e, up to its first await
Dispatch(cst, x, e) ==
    CASE e.ev = "all-users"   -> HandleAllUsers(cst, e.payload)
      [] e.ev = "user-joined" -> HandleUserJoined(cst, e.payload[1])
      [] e.ev = "user-left"   -> HandleUserLeft(cst, e.payload[1])
      [] e.ev = "signal"      ->
            IF e.payload.to \notin {NoTarget, x} THEN cst
            ELSE HandleSignal(cst, e.sender, e.payload.type, 0)
      [] OTHER                -> cst

\* the oldest event on the way to x arrives; with no handler registered it
\* is discarded
PairDeliver(x) ==
    /\ wire[x] # <<>>
    /\ wire' = [wire EXCEPT ![x] = Tail(@)]
    /\ sessions' = [sessions EXCEPT ![x].cst =
                        IF sessions[x].phase = "ready"
                        THEN Dispatch(@, x, Head(wire[x]))
                        ELSE @]
    /\ UNCHANGED relayVars
    /\ UNCHANGED clientVars /\ UNCHANGED chatVars

\* what the resumed invocation emitted: an offer, an answer or nothing
Sent(before, after, id) ==
    IF after.pcs[id].offers > before.pcs[id].offers THEN "offer"
    ELSE IF after.pcs[id].answers > before.pcs[id].answers THEN "answer"
    ELSE "none"

\* in session x the operation at the head of the chain of pc id settles;
\* a socket.emit("signal", ...) of the resumed handler goes through the relay
PairResume(x, id) ==
    LET cst == sessions[x].cst IN
    /\ id \in 1..Len(cst.pcs)
    /\ cst.tasks[id] # <<>>
    /\ cst.pcs[id].sig # "closed"
    /\ \E o \in Outcomes(cst, Head(cst.tasks[id])) :
          LET t    == Head(cst.tasks[id])
              new  == ResumeTask(cst, t, o)
              sent == Sent(cst, new, id)
              s1   == SignalHandler(RelayState, x, PairRoom,
                                    [to |-> t.from, from |-> NoTarget, type |-> sent])
          IN  /\ sessions' = [sessions EXCEPT ![x].cst = new]
              /\ IF sent # "none"
                 THEN /\ Commit(s1, Op("signal", x, PairRoom, t.from,
                                       rooms[PairRoom], roomMetadata[PairRoom].host))
                      /\ wire' = Route(wire, s1.out)
                      /\ UNCHANGED <<now, ticks>>
                 ELSE UNCHANGED relayVars /\ UNCHANGED wire
    /\ UNCHANGED clientVars /\ UNCHANGED chatVars

\* a socket that connects to the relay without the App: it joins no room
StrayConnect(x) ==
    /\ sessions[x].phase = "idle"
    /\ x \notin connected \cup gone
    /\ Commit([RelayState EXCEPT !.connected = connected \cup {x}],
              Op("connection", x, NoTarget, NoTarget, <<>>, NoHost))
    /\ sessions' = [sessions EXCEPT ![x].phase = "stray"]
    /\ UNCHANGED <<now, ticks, wire>>
    /\ UNCHANGED clientVars /\ UNCHANGED chatVars

\* such a socket emits signal {roomId, data: {type: "offer", to: y}}; one
\* signal at a time, until y holds a peer connection for it
StraySignal(x, y) ==
    /\ sessions[x].phase = "stray"
    /\ x # y
    /\ sessions[y].cst.peersRef[x] = 0
    /\ \A i \in 1..Len(wire[y]) : wire[y][i].sender # x
    /\ LET s1 == SignalHandler(RelayState, x, PairRoom,
                               [to |-> y, from |-> NoTarget, type |-> "offer"])
       IN  /\ Commit(s1, Op("signal", x, PairRoom, y,
                            rooms[PairRoom], roomMetadata[PairRoom].host))
           /\ wire' = Route(wire, s1.out)
    /\ UNCHANGED <<now, ticks, sessions>>
    /\ UNCHANGED clientVars /\ UNCHANGED chatVars

\* ------------------------------------------------------------------------
\* Chat: the relay's chat-message handler and the chat log of VideoCall
\* ------------------------------------------------------------------------

ChatInit ==
    /\ chatMessages = [x \in Remotes |-> <<>>]
    /\ chatSent = <<>>

\* a chat-message handler that leaves the sender out: socket.to(roomId)
ChatMessageHandler_SocketTo(st, c, r, message) ==
    [st EXCEPT !.out = st.out \o SocketToRoom(st.rooms, c, r, "chat-message", message)]

\* socket.on('chat-message', {roomId, message}):
\* io.to(roomId).emit('chat-message', {sender: socket.id, message})
ChatMessageHandler(st, c, r, message) ==
    [st EXCEPT !.out = st.out \o IoToRoom(st.rooms, r, "chat-message", c, message)]

\* setChatMessages(prev => [...prev, {sender, message}])
HandleChatMessage(log, sender, message) ==
    Append(log, [sender |-> sender, message |-> message])

\* sendChat of the VideoCall of socket x: the message goes to the relay and
\* is added to the local log.  Messages are numbered in the order sent.
SendChat(x) ==
    /\ sessions[x].phase \in {"mounted", "ready"}
    /\ x \in connected
    /\ Len(chatSent) < MaxChats
    /\ LET message == Len(chatSent) + 1
           s1      == ChatMessageHandler(RelayState, x, PairRoom, message)
       IN  /\ Commit(s1, Op("chat-message", x, PairRoom, NoTarget,
                            rooms[PairRoom], roomMetadata[PairRoom].host))
           /\ wire' = Route(wire, s1.out)
           /\ chatMessages' = [chatMessages EXCEPT
                                  ![x] = HandleChatMessage(@, x, message)]
           /\ chatSent' = Append(chatSent,
                                 [sender |-> x, members |-> SeqToSet(rooms[PairRoom])])
    /\ UNCHANGED <<now, ticks, sessions>>
    /\ UNCHANGED clientVars

\* the oldest event on the way to x arrives: a chat-message goes to the
\* listener VideoCall registered when it mounted, the others to the hook
ChatDeliver(x) ==
    /\ wire[x] # <<>>
    /\ LET e == Head(wire[x]) IN
       /\ wire' = [wire EXCEPT ![x] = Tail(@)]
       /\ chatMessages' =
             IF e.ev = "chat-message" /\ sessions[x].phase \in {"mounted", "ready"}
             THEN [chatMessages EXCEPT ![x] = HandleChatMessage(@, e.sender, e.payload)]
             ELSE chatMessages
       /\ sessions' = [sessions EXCEPT ![x].cst =
                           IF sessions[x].phase = "ready"
                           THEN Dispatch(@, x, e)
                           ELSE @]
    /\ UNCHANGED chatSent
    /\ UNCHANGED relayVars
    /\ UNCHANGED clientVars

\* two VideoCalls in one room, chatting
ChatNext ==
    \/ \E x \in Remotes : PairConnect(x)
    \/ \E x \in Remotes : PairStreamReady(x)
    \/ \E x \in Remotes : SendChat(x)
    \/ \E x \in Remotes : ChatDeliver(x)

PairNext ==
    \/ \E x \in Remotes : PairConnect(x)
    \/ \E x \in Remotes : PairStreamReady(x)
    \/ \E x \in Remotes : PairDeliver(x)
    \/ \E x \in Remotes, id \in 1..MaxPcs : PairResume(x, id)

\* two sockets on one relay, each running the App or not
StrayNext ==
    \/ PairNext
    \/ \E x \in Remotes : StrayConnect(x)
    \/ \E x \in Remotes, y \in Remotes : StraySignal(x, y)

\* ------------------------------------------------------------------------
\* Specifications
\* ------------------------------------------------------------------------

RelayInit ==
    /\ connected = {}
    /\ gone = {}
    /\ rooms = [r \in RoomIds |-> <<>>]
    /\ roomMetadata = [r \in RoomIds |-> NoMeta]
    /\ roomHosts = [r \in RoomIds |-> NoHost]
    /\ now = 0
    /\ ticks = 0
    /\ lastOp = NoOp
    /\ emitted = <<>>

\* membership, host and expiry operations of the relay
RelayNext ==
    \/ \E c \in Clients : Connect(c)
    \/ \E c \in Clients, r \in Rooms : JoinRoom(c, r)
    \/ \E c \in Clients : Disconnect(c)
    \/ Sweep
    \/ \E d \in TickSteps : Tick(d)

\* membership operations and the signal handler of the relay
SignalNext ==
    \/ \E c \in Clients : Connect(c)
    \/ \E c \in Clients, r \in Rooms : JoinRoom(c, r)
    \/ \E c \in Clients : Disconnect(c)
    \/ \E c \in Clients, r \in Rooms, data \in SignalData : Signal(c, r, data)

ApiClients == {"a", "b"}

ApiRooms == {"R1", BadRoom}

\* the relay as its clients and the HTTP surface see it: any room id on
\* join-room, malformed messages, validate-room, expiry
ApiNext ==
    \/ \E c \in ApiClients : Connect(c)
    \/ \E c \in ApiClients, r \in ApiRooms : JoinRoom(c, r)
    \/ \E c \in ApiClients : Disconnect(c)
    \/ \E c \in ApiClients : MalformedMessage(c)
    \/ \E r \in ApiRooms : ValidateRoom(r)
    \/ Sweep
    \/ \E d \in TickSteps : Tick(d)

\* one room of the relay that expires, its members running the App
ExpiryNext ==
    \/ \E c \in Clients : Connect(c)
    \/ \E c \in Clients : JoinRoom(c, PairRoom)
    \/ \E c \in Clients : Disconnect(c)
    \/ Sweep
    \/ \E d \in TickSteps : Tick(d)
    \/ \E c \in Clients, d \in Clients : AppReconnect(c, d, PairRoom)

Init == RelayInit /\ ClientInit /\ PairInit /\ ChatInit

Spec == Init /\ [][RelayNext]_vars

SpecSignal == Init /\ [][SignalNext]_vars

SpecClient == Init /\ [][ClientNext]_vars

SpecPair == Init /\ [][PairNext]_vars

\* Both Apps mount and both streams become ready, the transport delivers
\* every event the relay has emitted, and the browser settles every pending
\* operation of an open peer connection.
PairFairness ==
    \A x \in Remotes :
        /\ WF_vars(PairConnect(x))
        /\ WF_vars(PairStreamReady(x))
        /\ WF_vars(PairDeliver(x))
        /\ \A id \in 1..MaxPcs : WF_vars(PairResume(x, id))

SpecPairFair == Init /\ [][PairNext]_vars /\ PairFairness

SpecStray == Init /\ [][StrayNext]_vars

SpecEnded == Init /\ [][EndedNext]_vars

SpecExpiry == Init /\ [][ExpiryNext]_vars

SpecChat == Init /\ [][ChatNext]_vars

SpecLife == Init /\ [][LifeNext]_vars

SpecApi == Init /\ [][ApiNext]_vars

\* The browser settles every pending operation of an open peer connection;
\* this is assumed for the peer connection of p only, so that the operations
\* of q's may stay pending for ever.
SpecIndep == Init /\ [][IndepNext]_vars /\ WF_vars(ResumeFor("p"))

\* ------------------------------------------------------------------------
\* Properties
\* ------------------------------------------------------------------------

Members(r) == SeqToSet(rooms[r])

EmittedOf(ev) == SelectSeq(emitted, LAMBDA e : e.ev = ev)

Recipients(evs) == {evs[i].to : i \in 1..Len(evs)}

IsPrefix(s, t) == Len(s) <= Len(t) /\ \A i \in 1..Len(s) : s[i] = t[i]

\* the hosts the relay has on record for room r
RecordedHosts(r) ==
    (IF roomMetadata[r].present THEN {roomMetadata[r].host} ELSE {})
        \cup ({roomHosts[r]} \ {NoHost})

\* C1: every room with at least one member has exactly one recorded host,
\* and that host is one of its current members.
C1_NonEmptyRoomHasMemberHost ==
    \A r \in Rooms :
        rooms[r] # <<>> =>
            /\ Cardinality(RecordedHosts(r)) = 1
            /\ RecordedHosts(r) \subseteq Members(r)

OpenPcs(r) == {i \in 1..Len(pcs) : pcs[i].remote = r /\ pcs[i].sig # "closed"}

\* C2: for every remote id at most one peer connection is open, and it is
\* the one the peer mapping holds for that id: no second one was created
\* while one existed.
C2_OnePeerConnectionPerRemote ==
    \A r \in Remotes :
        /\ Cardinality(OpenPcs(r)) <= 1
        /\ OpenPcs(r) \subseteq {peersRef[r]}

\* a user-joined was repeated for one peer, and another peer's connection
\* was created by a signal that arrived before any user-joined for it
C2_Witness ==
    \E r, q \in Remotes :
        /\ r # q
        /\ delivered[r].joined = 2 /\ peersRef[r] # 0
        /\ peersRef[q] # 0 /\ pcs[peersRef[q]].how # "user-joined"
        /\ delivered[q].joined = 0

\* C3: no candidate has been applied to a peer connection that had no
\* remote description at the moment of the addIceCandidate call.
C3_NoCandidateBeforeRemoteDescription ==
    \A i \in 1..Len(pcs) : ~pcs[i].appliedEarly

\* a candidate arrived first, was buffered, and has been applied since
C3_Witness ==
    \E i \in 1..Len(pcs) :
        /\ pcs[i].how = "candidate"
        /\ Len(pcs[i].applied) >= 2
        /\ candidateQueue[pcs[i].remote] = <<>>

\* C4: on a peer connection with a remote description, the candidates
\* applied are the candidates received, in arrival order, each once (the
\* applied sequence is at all times a prefix of the received one).
C4_AppliedInArrivalOrder ==
    \A i \in 1..Len(pcs) :
        pcs[i].hasRemote => IsPrefix(pcs[i].applied, pcs[i].recv)

\* an offer to r is outstanding: created or sent on the mapped negotiator
\* and not answered yet
OfferOutstanding(r) ==
    /\ peersRef[r] # 0
    /\ \/ pcs[peersRef[r]].sig = "have-local-offer"
       \/ \E k \in 1..Len(tasks[peersRef[r]]) : tasks[peersRef[r]][k].h = "join"

RECURSIVE SumPcs(_, _, _)
SumPcs(ps, r, field) ==
    IF ps = <<>> THEN 0
    ELSE (IF Head(ps).remote = r THEN Head(ps)[field] ELSE 0) + SumPcs(Tail(ps), r, field)

C5_State ==
    \A i \in 1..Len(pcs) : pcs[i].offers <= pcs[i].offerCalls /\ pcs[i].offerCalls <= 1

C5_Step ==
    \A r \in Remotes :
        (OfferOutstanding(r) /\ delivered'[r].joined > delivered[r].joined) =>
            /\ peersRef'[r] = peersRef[r]
            /\ pcs'[peersRef[r]] = pcs[peersRef[r]]
            /\ tasks'[peersRef[r]] = tasks[peersRef[r]]
            /\ SumPcs(pcs', r, "offerCalls") = SumPcs(pcs, r, "offerCalls")
            /\ SumPcs(pcs', r, "offers") = SumPcs(pcs, r, "offers")

\* C5: an offer is created only on a negotiator that has made none, and is
\* sent at most once; while an offer to a peer is outstanding, a user-joined
\* or all-users event naming that peer starts no offer, sends nothing and
\* leaves the negotiator as it was.
C5_NoSecondOfferWhileOutstanding == []C5_State /\ [][C5_Step]_vars

\* a second notice naming the peer was handled while the offer was pending
C5_Witness ==
    \E r \in Remotes :
        /\ delivered[r].joined = 2
        /\ OfferOutstanding(r)
        /\ pcs[peersRef[r]].how = "user-joined"

IsJoin == lastOp.op = "join-room"

\* the list of the all-users event of the last join-room
AllUsersList == EmittedOf("all-users")[1].payload

\* C6 as stated: the all-users list is exactly the members of the room
\* immediately before the join.
C6_ListIsMembersBefore ==
    IsJoin => AllUsersList = lastOp.before

\* C6 as amended: the joiner gets exactly one all-users event, and its list
\* is the members of the room immediately before the join other than the
\* joiner itself, in join order.
C6_ListIsOtherMembersBefore ==
    IsJoin =>
        /\ Len(EmittedOf("all-users")) = 1
        /\ EmittedOf("all-users")[1].to = lastOp.client
        /\ AllUsersList = SeqRemove(lastOp.before, lastOp.client)
        /\ lastOp.client \notin SeqToSet(AllUsersList)

\* b joined after a: its list is [a]
C6_Witness ==
    /\ IsJoin
    /\ Len(lastOp.before) = 1
    /\ lastOp.client \notin SeqToSet(lastOp.before)
    /\ AllUsersList = lastOp.before

\* C7: a join-room emits one user-joined to each client that was already a
\* member when the joiner became a member, none to the joiner, and none at
\* all when the joiner was a member already (so each member sees exactly
\* one user-joined per membership of the joiner).
C7_OneUserJoinedPerMembership ==
    IsJoin =>
        LET uj == EmittedOf("user-joined") IN
        IF lastOp.client \in SeqToSet(lastOp.before)
        THEN uj = <<>>
        ELSE /\ Recipients(uj) = SeqToSet(lastOp.before)
             /\ Len(uj) = Len(lastOp.before)

C8_Step ==
    \A c \in Clients, r \in Rooms :
        (/\ c \in connected /\ c \notin connected'
         /\ c \in Members(r)
         /\ c \in RecordedHosts(r)
         /\ rooms'[r] # <<>>)
        => /\ roomMetadata'[r].present
           /\ \E h \in SeqToSet(rooms'[r]) :
                 /\ RecordedHosts(r)' = {h}
                 /\ \E i \in 1..Len(emitted') :
                       emitted'[i].ev = "host-transferred" /\ emitted'[i].to = h

\* C8: when the recorded host of a room disconnects and members remain, a
\* remaining member becomes the recorded host and is sent host-transferred,
\* and the room's state is kept.
C8_HostTransferredOnHostLeave == [][C8_Step]_vars

\* C9: an offer delivered to the joined client is never discarded; the
\* negotiator created for an offer of an unknown sender belongs to that
\* sender and sends at most one answer, after the offer was applied.
C9_OfferFromUnknownSenderIsAnswered ==
    /\ discarded.ev # "offer"
    /\ \A i \in 1..Len(pcs) :
          pcs[i].how = "offer" =>
             /\ pcs[i].answers <= 1
             /\ pcs[i].answers = 1 => pcs[i].hasRemote

\* C10: a signal whose target is not a member of the room it names is
\* delivered to nobody (stated for a target other than the sender itself).
C10_NonMemberTargetIsDropped ==
    (/\ lastOp.op = "signal"
     /\ lastOp.to # NoTarget
     /\ lastOp.to # lastOp.client
     /\ lastOp.to \notin SeqToSet(lastOp.before))
    => emitted = <<>>

C12_BroadcastToOtherMembers ==
    (lastOp.op = "signal" /\ lastOp.to = NoTarget)
    => /\ Recipients(emitted) = SeqToSet(lastOp.before) \ {lastOp.client}
       /\ Len(emitted) = Cardinality(Recipients(emitted))
       /\ \A i \in 1..Len(emitted) :
             emitted[i].ev = "signal" /\ emitted[i].sender = lastOp.client

\* a member of a room of three broadcast a signal
C12_Witness ==
    /\ lastOp.op = "signal"
    /\ lastOp.to = NoTarget
    /\ Len(lastOp.before) = 3
    /\ lastOp.client \in SeqToSet(lastOp.before)
    /\ Len(emitted) = 2

\* C13: a join-room by a socket that is a member of the room already leaves
\* the member list (no duplicate entry) and the recorded host as they were,
\* and the caller gets one all-users event listing the other members.
C13_RejoinKeepsMembersAndHost ==
    (IsJoin /\ lastOp.client \in SeqToSet(lastOp.before))
    => /\ rooms[lastOp.room] = lastOp.before
       /\ Cardinality(Members(lastOp.room)) = Len(rooms[lastOp.room])
       /\ RecordedHosts(lastOp.room) = {lastOp.hostBefore}
       /\ Len(EmittedOf("all-users")) = 1
       /\ EmittedOf("all-users")[1].to = lastOp.client
       /\ AllUsersList = SeqRemove(rooms[lastOp.room], lastOp.client)

\* a member that is not the host joined again a room of two or more
C13_Witness ==
    /\ IsJoin
    /\ lastOp.client \in SeqToSet(lastOp.before)
    /\ Len(lastOp.before) >= 2
    /\ lastOp.hostBefore \in SeqToSet(lastOp.before) \ {lastOp.client}
    /\ AllUsersList # <<>>

\* C14: after a join-room the room has exactly one recorded host: the
\* joiner when the room had none on record, else the host recorded before
\* (joins are handled one at a time, so the first one processed wins).
C14_FirstJoinerIsHost ==
    IsJoin =>
        RecordedHosts(lastOp.room) =
            {IF lastOp.hostBefore = NoHost THEN lastOp.client ELSE lastOp.hostBefore}

\* a third client joined a room whose first joiner is the recorded host
C14_Witness ==
    /\ IsJoin
    /\ Len(lastOp.before) = 2
    /\ lastOp.client \notin SeqToSet(lastOp.before)
    /\ roomMetadata[lastOp.room].host = lastOp.before[1]

\* the user-left events of the step for socket c in room r
UserLeftOf(evs, c, r) ==
    SelectSeq(evs, LAMBDA e : e.ev = "user-left" /\ e.room = r /\ e.sender = c)

C15_Step ==
    \A c \in Clients :
        (c \in connected /\ c \notin connected') =>
            \A r \in Rooms :
                /\ c \notin Members(r)'
                /\ LET ul == UserLeftOf(emitted', c, r) IN
                   IF c \in Members(r)
                   THEN /\ Members(r)' \subseteq Recipients(ul)
                        /\ Recipients(ul) \subseteq Members(r) \ {c}
                        /\ Len(ul) = Cardinality(Recipients(ul))
                        /\ \A i \in 1..Len(ul) : ul[i].payload = <<c>>
                   ELSE ul = <<>>

\* C15: when a socket disconnects it is removed from every room it was in,
\* and every remaining member of each such room is sent exactly one
\* user-left carrying its id; no one outside those rooms is sent one.
C15_DisconnectNotifiesEachRoom == [][C15_Step]_vars

\* a socket that was in two rooms, each with another member, disconnected
C15_Witness ==
    /\ lastOp.op = "disconnecting"
    /\ \A r \in Rooms : UserLeftOf(emitted, lastOp.client, r) # <<>>
    /\ \A r \in Rooms : rooms[r] # <<>>

\* C16: the relay holds state for a room (metadata, host-table entry) only
\* while the room has at least one member.
C16_StateOnlyWhileMembers ==
    \A r \in Rooms :
        (roomMetadata[r].present \/ roomHosts[r] # NoHost) => rooms[r] # <<>>

\* room r is past the threshold at the time of the sweep
Expired(r) == roomMetadata[r].present /\ now - roomMetadata[r].lastActivity > ROOM_EXPIRY_TIME

C17_Step ==
    (lastOp'.op = "sweep" /\ now' = now) =>
        \A r \in Rooms :
            IF Expired(r)
            THEN /\ rooms'[r] = <<>>
                 /\ ~roomMetadata'[r].present
                 /\ \A m \in Members(r) :
                       \E i \in 1..Len(emitted') :
                          /\ emitted'[i].ev = "room-expired"
                          /\ emitted'[i].to = m
                          /\ emitted'[i].room = r
            ELSE /\ rooms'[r] = rooms[r]
                 /\ roomMetadata'[r] = roomMetadata[r]

\* C17: a sweep empties every room past the threshold, drops its state and
\* sends room-expired to each of its members, and leaves the members and
\* the state of every other room as they were.
C17_SweepTouchesExpiredRoomsOnly == [][C17_Step]_vars

\* the step resumes the invocation at the head of the chain of pc id
Resumed(id) ==
    /\ id \in 1..Len(pcs)
    /\ tasks[id] # <<>>
    /\ pcs'[id].sig # "closed"
    /\ tasks'[id] # tasks[id]
    /\ Len(tasks'[id]) <= Len(tasks[id])

C18_Step ==
    \A id \in 1..MaxPcs :
        (/\ Resumed(id)
         /\ Head(tasks[id]).h = "offer" /\ Head(tasks[id]).at = "srd"
         /\ pcs[id].sig = "have-local-offer")
        => /\ pcs'[id] = pcs[id]
           /\ tasks'[id] = Tail(tasks[id])

\* C18: an offer whose setRemoteDescription runs while the peer connection
\* is in have-local-offer is rejected: the peer connection is left as it
\* was and the handler ends without creating or sending an answer.
C18_OfferInHaveLocalOfferIsRejected == [][C18_Step]_vars

C19_Step ==
    \A id \in 1..MaxPcs :
        (/\ Resumed(id)
         /\ Head(tasks[id]).h = "answer" /\ Head(tasks[id]).at = "srd")
        => IF pcs[id].sig = "have-local-offer"
           THEN pcs'[id].sig = "stable" /\ pcs'[id].hasRemote
           ELSE pcs'[id] = pcs[id] /\ tasks'[id] = Tail(tasks[id])

Held(x, y) == sessions[x].cst.peersRef[y]

PcOf(x, y) == sessions[x].cst.pcs[Held(x, y)]

\* x is a member of the room and joined it before y
JoinedBefore(x, y) ==
    \E i, j \in 1..Len(rooms[PairRoom]) :
        i < j /\ rooms[PairRoom][i] = x /\ rooms[PairRoom][j] = y

\* both sessions have a local offer set toward each other
BothOffering ==
    \E x, y \in Remotes :
        /\ x # y
        /\ Held(x, y) # 0 /\ PcOf(x, y).sig = "have-local-offer"
        /\ Held(y, x) # 0 /\ PcOf(y, x).sig = "have-local-offer"

\* C20: of two members of a room only the one that joined later starts an
\* offer toward the other, and the two are never both in have-local-offer
\* toward each other.
C20_NewcomerInitiates ==
    /\ \A x, y \in Remotes :
          (JoinedBefore(x, y) /\ Held(x, y) # 0) => PcOf(x, y).offerCalls = 0
    /\ ~BothOffering

C21_State ==
    \A r \in Remotes :
        delivered[r].left =>
            /\ peersRef[r] = 0
            /\ \A i \in 1..Len(pcs) : pcs[i].remote = r => pcs[i].sig = "closed"

C21_Step ==
    \A i \in 1..Len(pcs) : pcs[i].sig = "closed" => pcs'[i] = pcs[i]

\* C21: once user-left for a peer was handled, the mapping has no entry for
\* it and its peer connection is closed, and a closed peer connection never
\* changes again: no description or candidate is applied to it and no offer
\* or answer is sent from it, whatever was pending when it was closed.
C21_NothingAfterUserLeft == []C21_State /\ [][C21_Step]_vars

\* user-left was handled for a peer whose offer was created but not yet sent
C21_Witness ==
    \E i \in 1..Len(pcs) :
        /\ delivered[pcs[i].remote].left
        /\ pcs[i].sig = "closed"
        /\ pcs[i].offerCalls = 1
        /\ pcs[i].offers = 0

\* C22: candidates are buffered for a remote id only while the mapping
\* holds a peer connection for that id.
C22_BufferOnlyWhileNegotiator ==
    \A r \in Remotes : candidateQueue[r] # <<>> => peersRef[r] # 0

\* C23: the sender list of every peer connection holds each local track
\* exactly once, however many offers and answers its peer has sent.
C23_EachTrackAttachedOnce ==
    \A i \in 1..Len(pcs) :
        /\ Len(pcs[i].senders) = Cardinality(SeqToSet(pcs[i].senders))
        /\ SeqToSet(pcs[i].senders) = SeqToSet(LocalTracks)

\* a peer connection created for an offer has also been sent an answer and
\* a second offer
C23_Witness ==
    \E r \in Remotes :
        /\ peersRef[r] # 0
        /\ pcs[peersRef[r]].how = "offer"
        /\ delivered[r].offer >= 2
        /\ delivered[r].answer >= 1

\* C24: a client whose media acquisition failed still takes part: no event
\* of the room it joined is lost on it for lack of a handler.
C24_NegotiatesWithoutMedia ==
    phase = "nomedia" => discarded = NoEvent

\* C25: once the socket has disconnected, every peer connection created
\* before the disconnect is closed, and after the reconnect and re-join the
\* client holds none of them.
C25_DisconnectDropsNegotiators ==
    /\ \A id \in 1..mount.older : pcs[id].sig = "closed" /\ tasks[id] = <<>>
    /\ phase # "offline" =>
          \A r \in Remotes : peersRef[r] = 0 \/ peersRef[r] > mount.older

\* after a reconnect the client negotiates again with a remote it had a
\* peer connection for before the disconnect
C25_Witness ==
    /\ phase = "ready"
    /\ mount.n = 2
    /\ \E r \in Remotes :
          /\ peersRef[r] > mount.older
          /\ \E id \in 1..mount.older : pcs[id].remote = r

C26_Step ==
    (lastOp'.op = "join-room" /\ lastOp'.room = BadRoom) =>
        /\ rooms' = rooms
        /\ roomMetadata' = roomMetadata
        /\ Len(emitted') = 1
        /\ emitted'[1].ev = "error"
        /\ emitted'[1].to = lastOp'.client

\* C26: a join-room with a malformed room id leaves membership and room
\* state as they were and emits one error event, to the caller.
C26_MalformedJoinIsRejected == [][C26_Step]_vars

C27_Step ==
    lastOp'.op = "malformed" =>
        \A d \in connected \ {lastOp'.client} :
            /\ d \in connected'
            /\ \A r \in RoomIds :
                  (d \in SeqToSet(rooms[r])) <=> (d \in SeqToSet(rooms'[r]))

\* C27: a malformed message leaves every other client connected and in the
\* rooms it was in.
C27_BadMessageStaysWithSender == [][C27_Step]_vars

\* C29: validate-room answers exists exactly for a room that has a member,
\* and then reports the number of members.
C29_ValidateRoomAnswersMembership ==
    lastOp.op = "validate-room" =>
        LET resp == emitted[1].payload
            r    == lastOp.room
        IN  /\ resp.exists <=> rooms[r] # <<>>
            /\ resp.exists => resp.participants = Len(rooms[r])

\* the answer for a room that a disconnect has emptied, its metadata still
\* there
C29_Witness ==
    /\ lastOp.op = "validate-room"
    /\ ~emitted[1].payload.exists
    /\ roomMetadata[lastOp.room].present
    /\ gone # {}

C30_Step ==
    lastOp'.op = "disconnecting" =>
        \A r \in Rooms :
            LET host == lastOp'.client
                rest == SeqToSet(rooms[r]) \ {host}
            IN  (host \in SeqToSet(rooms[r]) /\ roomMetadata[r].host = host) =>
                    \A d \in rest :
                        \E i \in 1..Len(emitted') :
                            /\ emitted'[i].ev = "meeting-ended"
                            /\ emitted'[i].to = d
                            /\ emitted'[i].room = r

\* C30: when the first joiner of a room, recorded as its host, disconnects,
\* every member that remains is sent meeting-ended.
C30_HostDisconnectEndsMeeting == [][C30_Step]_vars

\* p's offer is out and an answer of p is waiting on p's peer connection
AnswerPending(r) ==
    /\ peersRef[r] # 0
    /\ pcs[peersRef[r]].offers > 0
    /\ pcs[peersRef[r]].sig = "have-local-offer"
    /\ \E i \in 1..Len(tasks[peersRef[r]]) : tasks[peersRef[r]][i].h = "answer"

Negotiated(r) ==
    /\ peersRef[r] # 0
    /\ pcs[peersRef[r]].sig = "stable"
    /\ pcs[peersRef[r]].hasRemote

\* C28: once p's answer to the client's offer is delivered, the peer
\* connection for p reaches stable with p's description set, whatever the
\* state of the peer connection for q and whether or not its operations
\* ever settle.
C28_NegotiationsAreIndependent == AnswerPending("p") ~> Negotiated("p")

\* p is negotiated while the peer connection for q still waits: for an
\* answer that has not come, and with an operation pending
C28_Witness ==
    /\ Negotiated("p")
    /\ pcs[peersRef["p"]].offers > 0
    /\ peersRef["q"] # 0
    /\ peersRef["q"] < peersRef["p"]
    /\ pcs[peersRef["q"]].sig = "have-local-offer"
    /\ tasks[peersRef["q"]] # <<>>

\* C31: the candidate buffer of a remote the client holds a peer connection
\* for is non-empty only while that peer connection has no remote
\* description.
C31_BufferOnlyBeforeRemoteDescription ==
    \A r \in Remotes :
        (peersRef[r] # 0 /\ candidateQueue[r] # <<>>) =>
            ~pcs[peersRef[r]].hasRemote

C32_Step ==
    \A x \in Remotes :
        (wire[x] # <<>> /\ wire'[x] = Tail(wire[x])) =>
            sessions[x].phase = "ready"

\* C32: every event the relay has sent to a member is delivered to a
\* session whose handlers are registered.
C32_NoEventBeforeHandlers == [][C32_Step]_vars

\* session x holds a peer connection for y that is stable with y's
\* description set
PairNegotiated(x, y) ==
    LET cst == sessions[x].cst IN
    /\ cst.peersRef[y] # 0
    /\ cst.pcs[cst.peersRef[y]].sig = "stable"
    /\ cst.pcs[cst.peersRef[y]].hasRemote

\* C33: two members of one room that stay, with every relayed event
\* delivered, both come to hold a stable peer connection for the other with
\* its description set.
C33_BothReachStable ==
    <>(PairNegotiated("p", "q") /\ PairNegotiated("q", "p"))

ShareRoom(c, d) ==
    \E r \in Rooms : c \in SeqToSet(rooms[r]) /\ d \in SeqToSet(rooms[r])

\* C34: every signal the relay delivers to another client goes to one that
\* is in a room with its sender.
C34_SignalStaysInSendersRooms ==
    lastOp.op = "signal" =>
        \A i \in 1..Len(emitted) :
            emitted[i].to # lastOp.client =>
                ShareRoom(lastOp.client, emitted[i].to)

\* the remotes session x holds a peer connection for
NegotiatorsOf(x) == {y \in Remotes : sessions[x].cst.peersRef[y] # 0}

\* C35: with no relay message in flight, a client holds peer connections
\* only for other current members of its room.
C35_NegotiatorsAreMembers ==
    (\A x \in Remotes : wire[x] = <<>>) =>
        \A x \in Remotes :
            NegotiatorsOf(x) \subseteq SeqToSet(rooms[PairRoom]) \ {x}

\* C36: every peer connection in the peer mapping of a mounted hook is
\* open.
C36_HeldConnectionsAreOpen ==
    phase = "ready" =>
        \A r \in Remotes : peersRef[r] # 0 => pcs[peersRef[r]].sig # "closed"

C37_Step ==
    \A r \in Rooms :
        (rooms[r] = <<>> /\ ~roomMetadata[r].present /\ rooms'[r] # <<>>) =>
            lastOp'.op = "join-room"

\* C37: a room without members and without state, as the sweep leaves it,
\* gets a member again only by a join-room that a user asked for.
C37_SweptRoomStaysEmpty == [][C37_Step]_vars

\* how often message m is in a chat log
TimesIn(log, m) == Cardinality({i \in 1..Len(log) : log[i].message = m})

\* C38: once nothing is on its way, every chat message is exactly once in
\* the chat log of every socket that was a member of the room when it was
\* sent, the sender's log included.
C38_ChatMessageOncePerMember ==
    (\A x \in Remotes : wire[x] = <<>>) =>
        \A m \in 1..Len(chatSent) :
            \A y \in chatSent[m].members :
                TimesIn(chatMessages[y], m) = 1

=============================================================================
